---- MODULE Spec2Model ----
(***************************************************************************)
(* ResourceGuard of qa-kit (src/core/page-health.ts): circuit breaker,     *)
(* background resource monitor, withRetry and withTimeout; then the        *)
(* FailureClassifier, the EvidenceCollector and the PageHealthScorer.      *)
(* Time is Date.now() in milliseconds; it advances in steps of the         *)
(* monitor interval, and the setInterval callback runs once per step.      *)
(***************************************************************************)
EXTENDS Integers, Sequences, FiniteSets, TLC

VARIABLES now, rg, monitorDue, retry, tmo, hist, fc, ec, ph

vars == <<now, rg, monitorDue, retry, tmo, hist, fc, ec, ph>>

(* null / undefined of a number-or-null field (all numbers are >= 0) *)
Null == 0 - 1
None == "none"

(* ---- bounds of the model ---- *)
StartTime == 5000
MaxRunTime == 70000
RetryRunTime == 50000
MaxFailures == 6
NumCalls == 2
MaxRetriesArgLong == 7
MaxRetriesUsed == 5
MaxHealingCalls == 3

(* ---- program constants ---- *)
MonitorIntervalMs == 5000
BackoffBaseMs == 1000
BackoffCapMs == 10000

Calls == 1..NumCalls

(* timeoutMs arguments tried (0: omitted) *)
TimeoutArgs == {0, MonitorIntervalMs, 2 * MonitorIntervalMs}

(* this.limits: the defaults of the constructor overridden by             *)
(* customLimits = {maxRunTime: customMaxRunTime}                           *)
defaultLimits(customMaxRunTime) ==
  [maxRunTime |-> customMaxRunTime, maxMemoryMB |-> 512, maxRetries |-> 3,
   maxHealingAttempts |-> 2, testTimeout |-> 60000]

(* heap readings process.memoryUsage() can give at a monitor check *)
WithinLimitMB == defaultLimits(0).maxMemoryMB
OverLimitMB == defaultLimits(0).maxMemoryMB + 1
MemoryReadings == {WithinLimitMB, OverLimitMB}

(* JavaScript truthiness of a number-or-null *)
Truthy(x) == x # Null /\ x # 0

(* `a || b` on an optional number: undefined and 0 are both falsy *)
OrDefault(a, b) == IF Truthy(a) THEN a ELSE b

Min(a, b) == IF a <= b THEN a ELSE b

RECURSIVE Pow2(_)
Pow2(n) == IF n <= 0 THEN 1 ELSE 2 * Pow2(n - 1)

(* ---- state after `new ResourceGuard('smoke', {maxRunTime})` ---- *)
NewGuard(customMaxRunTime) ==
  [limits |-> defaultLimits(customMaxRunTime),
   stats |-> [startTime |-> StartTime, retriesUsed |-> 0,
              healingAttempts |-> 0, resourceWarnings |-> 0],
   circuitBreaker |-> [failures |-> 0, threshold |-> 5, timeout |-> 60000,
                       state |-> "CLOSED", lastFailure |-> Null],
   monitoringInterval |-> TRUE,
   exitCode |-> Null,
   shutdownReason |-> None]

Running(g) == g.exitCode = Null

(* ---- circuit breaker ---- *)
canProceed(g) == g.circuitBreaker.state # "OPEN"

(* variant: lastFailure is stamped only when the breaker opens *)
recordCircuitBreakerFailure_firstStamp(g, t) ==
  LET n == g.circuitBreaker.failures + 1
  IN IF n >= g.circuitBreaker.threshold /\ g.circuitBreaker.state # "OPEN"
       THEN [g EXCEPT !.circuitBreaker.failures = n,
                      !.circuitBreaker.state = "OPEN",
                      !.circuitBreaker.lastFailure = t]
       ELSE [g EXCEPT !.circuitBreaker.failures = n]

(* variants of recordCircuitBreakerFailure with a plausible slip: the      *)
(* threshold test off by one either way, and a trip that ends the process  *)
recordCircuitBreakerFailure_late(g, t) ==
  LET n == g.circuitBreaker.failures + 1
  IN IF n > g.circuitBreaker.threshold
       THEN [g EXCEPT !.circuitBreaker.failures = n,
                      !.circuitBreaker.state = "OPEN",
                      !.circuitBreaker.lastFailure = t]
       ELSE [g EXCEPT !.circuitBreaker.failures = n]

recordCircuitBreakerFailure_early(g, t) ==
  LET n == g.circuitBreaker.failures + 1
  IN IF n >= g.circuitBreaker.threshold - 1
       THEN [g EXCEPT !.circuitBreaker.failures = n,
                      !.circuitBreaker.state = "OPEN",
                      !.circuitBreaker.lastFailure = t]
       ELSE [g EXCEPT !.circuitBreaker.failures = n]

recordCircuitBreakerFailure_fatal(g, t) ==
  LET n == g.circuitBreaker.failures + 1
  IN IF n >= g.circuitBreaker.threshold
       THEN [g EXCEPT !.circuitBreaker.failures = n,
                      !.circuitBreaker.state = "OPEN",
                      !.circuitBreaker.lastFailure = t,
                      !.monitoringInterval = FALSE,
                      !.exitCode = 1,
                      !.shutdownReason = "CIRCUIT_BREAKER"]
       ELSE [g EXCEPT !.circuitBreaker.failures = n]

recordCircuitBreakerFailure(g, t) ==
  LET n == g.circuitBreaker.failures + 1
  IN IF n >= g.circuitBreaker.threshold
       THEN [g EXCEPT !.circuitBreaker.failures = n,
                      !.circuitBreaker.state = "OPEN",
                      !.circuitBreaker.lastFailure = t]
       ELSE [g EXCEPT !.circuitBreaker.failures = n]

(* variant: a success closes the breaker from any state *)
recordCircuitBreakerSuccess_closes(g) ==
  [g EXCEPT !.circuitBreaker.failures = 0, !.circuitBreaker.state = "CLOSED"]

recordCircuitBreakerSuccess(g) ==
  IF g.circuitBreaker.state = "HALF_OPEN"
    THEN [g EXCEPT !.circuitBreaker.failures = 0,
                   !.circuitBreaker.state = "CLOSED"]
    ELSE [g EXCEPT !.circuitBreaker.failures = 0]

(* ---- rate limit of healing attempts ---- *)
(* variant: the limit test is > *)
canAttemptHealing_late(g) ==
  ~(g.stats.healingAttempts > g.limits.maxHealingAttempts)

canAttemptHealing(g) ==
  ~(g.stats.healingAttempts >= g.limits.maxHealingAttempts)

recordHealingAttempt(g) == [g EXCEPT !.stats.healingAttempts = @ + 1]

(* ---- shutdown path ---- *)
emergencyShutdown(g, reason) ==
  [g EXCEPT !.monitoringInterval = FALSE,
            !.exitCode = 1,
            !.shutdownReason = reason]

handleResourceLimit(g, reason) == emergencyShutdown(g, reason)

(* ---- the monitor callback ---- *)
cooldownExpired(g, t) ==
  /\ Truthy(g.circuitBreaker.lastFailure)
  /\ t - g.circuitBreaker.lastFailure > g.circuitBreaker.timeout

(* variant: the cooldown is not consulted *)
checkBreaker_noCooldown(g, t) ==
  IF g.circuitBreaker.state = "OPEN"
    THEN [g EXCEPT !.circuitBreaker.state = "HALF_OPEN"]
    ELSE g

checkBreaker(g, t) ==
  IF g.circuitBreaker.state = "OPEN" /\ cooldownExpired(g, t)
    THEN [g EXCEPT !.circuitBreaker.state = "HALF_OPEN"]
    ELSE g

(* variant: the runtime test is >= *)
checkResourceLimits_atLimit(g, t, memoryMB) ==
  IF t - g.stats.startTime >= g.limits.maxRunTime
    THEN handleResourceLimit(g, "MAX_RUNTIME")
    ELSE IF memoryMB > g.limits.maxMemoryMB
      THEN LET w == [g EXCEPT !.stats.resourceWarnings = @ + 1]
           IN IF w.stats.resourceWarnings > 3
                THEN handleResourceLimit(w, "MAX_MEMORY")
                ELSE IF w.circuitBreaker.state = "OPEN" /\ cooldownExpired(w, t)
                       THEN [w EXCEPT !.circuitBreaker.state = "HALF_OPEN"]
                       ELSE w
      ELSE IF g.circuitBreaker.state = "OPEN" /\ cooldownExpired(g, t)
             THEN [g EXCEPT !.circuitBreaker.state = "HALF_OPEN"]
             ELSE g

(* variant: shutdown on the third warning *)
checkMemory_third(g, t, memoryMB) ==
  IF memoryMB > g.limits.maxMemoryMB
    THEN LET w == [g EXCEPT !.stats.resourceWarnings = @ + 1]
         IN IF w.stats.resourceWarnings >= 3
              THEN handleResourceLimit(w, "MAX_MEMORY")
              ELSE checkBreaker(w, t)
    ELSE checkBreaker(g, t)

checkMemory(g, t, memoryMB) ==
  IF memoryMB > g.limits.maxMemoryMB
    THEN LET w == [g EXCEPT !.stats.resourceWarnings = @ + 1]
         IN IF w.stats.resourceWarnings > 3
              THEN handleResourceLimit(w, "MAX_MEMORY")
              ELSE checkBreaker(w, t)
    ELSE checkBreaker(g, t)

checkResourceLimits(g, t, memoryMB) ==
  IF t - g.stats.startTime > g.limits.maxRunTime
    THEN handleResourceLimit(g, "MAX_RUNTIME")
    ELSE checkMemory(g, t, memoryMB)

(* ---- history (not program state): what the calls so far were ---- *)
(* freshFailures: recordCircuitBreakerFailure calls since construction,    *)
(*   Null once any recordCircuitBreakerSuccess was called                  *)
(* successSinceOpen: a success was recorded since the breaker last opened  *)
(* consecOver: length of the current run of over-limit monitor checks      *)
(* overChecks: monitor checks since construction that found the heap over  *)
(*   maxMemoryMB                                                           *)
(* exhausted: withRetry calls whose last attempt failed                    *)
(* failedAttempts: failed attempts over all withRetry calls                *)
(* healCalls: recordHealingAttempt calls since construction                *)
NewHist ==
  [freshFailures |-> 0, successSinceOpen |-> FALSE, consecOver |-> 0,
   overChecks |-> 0, exhausted |-> 0, failedAttempts |-> 0, healCalls |-> 0]

HistFailure(h, g2) ==
  [h EXCEPT !.freshFailures = IF @ = Null THEN Null ELSE @ + 1,
            !.successSinceOpen =
               IF g2.circuitBreaker.failures >= g2.circuitBreaker.threshold
                 THEN FALSE ELSE @]

HistSuccess(h, g) ==
  [h EXCEPT !.freshFailures = Null,
            !.successSinceOpen = (g.circuitBreaker.state = "OPEN")]

HistCheck(h, g2, memoryMB, reached) ==
  [h EXCEPT !.consecOver = IF ~reached THEN @
                           ELSE IF memoryMB > g2.limits.maxMemoryMB THEN @ + 1 ELSE 0,
            !.overChecks = IF reached /\ memoryMB > g2.limits.maxMemoryMB
                             THEN @ + 1 ELSE @,
            !.successSinceOpen = IF g2.circuitBreaker.state = "OPEN" THEN @ ELSE FALSE]

HistHeal(h) == [h EXCEPT !.healCalls = @ + 1]

HistAttempt(h, r) ==
  [h EXCEPT !.failedAttempts = @ + 1,
            !.exhausted = IF r.attempt = r.retries THEN @ + 1 ELSE @]

IdleRetry ==
  [pc |-> "idle", retries |-> 0, attempt |-> 0, sleeps |-> <<>>, wakeAt |-> 0,
   lastError |-> Null, thrown |-> Null, arg |-> 0, outcomes |-> <<>>]

NoOutcome == [kind |-> None, name |-> None, ms |-> 0]

IdleTimeout ==
  [op |-> "none", name |-> None, timeout |-> 0, deadline |-> 0,
   timer |-> FALSE, promise |-> [settled |-> FALSE, outcome |-> NoOutcome],
   settles |-> 0]

(* no FailureClassifier call is in progress *)
NoClassifier == [pc |-> "none"]

(* no EvidenceCollector exists *)
NoCollector == [pc |-> "none"]

(* no PageHealthScorer exists *)
NoScorer == [pc |-> "none"]

InitGuard(customMaxRunTime) ==
  /\ now = StartTime
  /\ rg = NewGuard(customMaxRunTime)
  /\ monitorDue = FALSE
  /\ retry = [c \in Calls |-> IdleRetry]
  /\ tmo = IdleTimeout
  /\ hist = NewHist

InitWith(customMaxRunTime) ==
  /\ InitGuard(customMaxRunTime)
  /\ fc = NoClassifier
  /\ ec = NoCollector
  /\ ph = NoScorer

Init == InitWith(MaxRunTime)

(* ---- actions ---- *)
Tick ==
  /\ Running(rg)
  /\ ~monitorDue
  /\ now' = now + MonitorIntervalMs
  /\ monitorDue' = rg.monitoringInterval
  /\ UNCHANGED <<rg, retry, tmo, hist, fc, ec, ph>>

(* the setInterval callback; Readings are the heap sizes it may find *)
MonitorCheck(Readings) ==
  /\ Running(rg)
  /\ monitorDue
  /\ rg.monitoringInterval
  /\ \E memoryMB \in Readings :
       /\ rg' = checkResourceLimits(rg, now, memoryMB)
       /\ hist' = HistCheck(hist, rg', memoryMB,
                            ~(now - rg.stats.startTime > rg.limits.maxRunTime))
  /\ monitorDue' = FALSE
  /\ UNCHANGED <<now, retry, tmo, fc, ec, ph>>

RecordFailure ==
  /\ Running(rg)
  /\ rg.circuitBreaker.failures < MaxFailures
  /\ rg' = recordCircuitBreakerFailure(rg, now)
  /\ hist' = HistFailure(hist, rg')
  /\ UNCHANGED <<now, monitorDue, retry, tmo, fc, ec, ph>>

RecordSuccess ==
  /\ Running(rg)
  /\ rg' = recordCircuitBreakerSuccess(rg)
  /\ hist' = HistSuccess(hist, rg)
  /\ UNCHANGED <<now, monitorDue, retry, tmo, fc, ec, ph>>

RecordHealingAttempt ==
  /\ Running(rg)
  /\ rg.stats.healingAttempts < MaxHealingCalls
  /\ rg' = recordHealingAttempt(rg)
  /\ hist' = HistHeal(hist)
  /\ UNCHANGED <<now, monitorDue, retry, tmo, fc, ec, ph>>

(* ---- withRetry: one call per slot c at a time ---- *)
(* variant: the ceiling is missing *)
backoffMs_uncapped(attempt) == BackoffBaseMs * Pow2(attempt - 1)

backoffMs(attempt) == Min(BackoffBaseMs * Pow2(attempt - 1), BackoffCapMs)

(* withRetry(operation, name, n) is called; n = 0 stands for an omitted    *)
(* argument.  The loop starts and attempt 1 awaits operation().            *)
StartRetry(c, n) ==
  /\ Running(rg)
  /\ retry[c].pc \in {"idle", "returned", "thrown"}
  /\ rg.stats.retriesUsed < MaxRetriesUsed
  /\ rg.circuitBreaker.failures < MaxFailures
  /\ retry' = [retry EXCEPT ![c] =
                 [IdleRetry EXCEPT !.pc = "running", !.arg = n,
                                   !.retries = OrDefault(n, rg.limits.maxRetries),
                                   !.attempt = 1]]
  /\ UNCHANGED <<now, rg, monitorDue, tmo, hist, fc, ec, ph>>

(* variant: a successful attempt reports the success to the breaker *)
resolveAttempt_recordsSuccess(g, r) == recordCircuitBreakerSuccess(g)

(* the guard after the try block of an attempt that resolved: `return      *)
(* result` follows the await, no counter and no breaker field is written   *)
resolveAttempt(g, r) == g

(* operation() of the current attempt resolves: withRetry returns *)
AttemptOk(c) ==
  /\ Running(rg)
  /\ retry[c].pc = "running"
  /\ rg' = resolveAttempt(rg, retry[c])
  /\ retry' = [retry EXCEPT ![c].pc = "returned",
                            ![c].outcomes = Append(@, "ok")]
  /\ UNCHANGED <<now, monitorDue, tmo, hist, fc, ec, ph>>

(* variant: every failed attempt records a breaker failure *)
catchAttempt_everyAttempt(g, r, t) ==
  recordCircuitBreakerFailure([g EXCEPT !.stats.retriesUsed = @ + 1], t)

(* the guard after the catch block of a failed attempt *)
catchAttempt(g, r, t) ==
  LET g1 == [g EXCEPT !.stats.retriesUsed = @ + 1]
  IN IF r.attempt = r.retries THEN recordCircuitBreakerFailure(g1, t) ELSE g1

(* variant: the loop stops at the first failed attempt *)
catchCall_once(r, t) ==
  [r EXCEPT !.lastError = r.attempt, !.outcomes = Append(@, "err"),
            !.pc = "thrown", !.thrown = r.attempt]

(* variant: the loop gives up one attempt early *)
catchCall_short(r, t) ==
  LET r1 == [r EXCEPT !.lastError = r.attempt,
                      !.outcomes = Append(@, "err")]
  IN IF r.attempt >= r.retries - 1
       THEN [r1 EXCEPT !.pc = "thrown", !.thrown = r.attempt]
       ELSE [r1 EXCEPT !.pc = "sleeping",
                       !.sleeps = Append(@, backoffMs(r.attempt)),
                       !.wakeAt = t + backoffMs(r.attempt)]

(* the call after the catch block: the error of attempt k is named k *)
catchCall(r, t) ==
  LET r1 == [r EXCEPT !.lastError = r.attempt,
                      !.outcomes = Append(@, "err")]
  IN IF r.attempt = r.retries
       THEN [r1 EXCEPT !.pc = "thrown", !.thrown = r.attempt]
       ELSE [r1 EXCEPT !.pc = "sleeping",
                       !.sleeps = Append(@, backoffMs(r.attempt)),
                       !.wakeAt = t + backoffMs(r.attempt)]

(* operation() of the current attempt rejects *)
AttemptFail(c) ==
  /\ Running(rg)
  /\ retry[c].pc = "running"
  /\ rg' = catchAttempt(rg, retry[c], now)
  /\ retry' = [retry EXCEPT ![c] = catchCall(retry[c], now)]
  /\ hist' = HistAttempt(IF retry[c].attempt = retry[c].retries
                           THEN HistFailure(hist, rg') ELSE hist, retry[c])
  /\ UNCHANGED <<now, monitorDue, tmo, fc, ec, ph>>

(* the backoff timer fires: attempt++ and the next operation() starts *)
SleepDone(c) ==
  /\ Running(rg)
  /\ retry[c].pc = "sleeping"
  /\ now >= retry[c].wakeAt
  /\ retry' = [retry EXCEPT ![c].pc = "running", ![c].attempt = @ + 1,
                            ![c].wakeAt = 0]
  /\ UNCHANGED <<now, rg, monitorDue, tmo, hist, fc, ec, ph>>

(* ---- withTimeout: one call at a time ---- *)
OpNames == {"login", "click"}

(* resolve()/reject() of the promise withTimeout returns: only the first   *)
(* call settles it                                                         *)
settle(p, kind, name, ms) ==
  IF p.settled THEN p
  ELSE [settled |-> TRUE, outcome |-> [kind |-> kind, name |-> name, ms |-> ms]]

(* the setTimeout callback: reject(new Error(`Operation "${name}" timed    *)
(* out after ${timeout}ms`))                                               *)
onTimer(w) ==
  [w EXCEPT !.timer = FALSE,
            !.promise = settle(@, "timeout", w.name, w.timeout),
            !.settles = @ + 1]

(* variant: clearTimeout is forgotten *)
onOperationResolved_noClear(w) ==
  [w EXCEPT !.op = "fulfilled",
            !.promise = settle(@, "result", None, 0),
            !.settles = @ + 1]

(* `await operation()` returned: clearTimeout(timer); resolve(result) *)
onOperationResolved(w) ==
  [w EXCEPT !.op = "fulfilled", !.timer = FALSE,
            !.promise = settle(@, "result", None, 0),
            !.settles = @ + 1]

(* `await operation()` threw: clearTimeout(timer); reject(error) *)
onOperationRejected(w) ==
  [w EXCEPT !.op = "rejected", !.timer = FALSE,
            !.promise = settle(@, "opError", None, 0),
            !.settles = @ + 1]

(* withTimeout(operation, name, t) is called; t = 0 stands for an omitted  *)
(* argument.  The timer is armed and operation() is started.               *)
StartTimeout(name, t) ==
  /\ Running(rg)
  /\ tmo.op # "running"
  /\ tmo' = [IdleTimeout EXCEPT !.op = "running", !.name = name,
                                !.timeout = OrDefault(t, rg.limits.testTimeout),
                                !.deadline = now + OrDefault(t, rg.limits.testTimeout),
                                !.timer = TRUE]
  /\ UNCHANGED <<now, rg, monitorDue, retry, hist, fc, ec, ph>>

TimerFire ==
  /\ Running(rg)
  /\ tmo.timer
  /\ now >= tmo.deadline
  /\ tmo' = onTimer(tmo)
  /\ UNCHANGED <<now, rg, monitorDue, retry, hist, fc, ec, ph>>

OpFulfil ==
  /\ Running(rg)
  /\ tmo.op = "running"
  /\ tmo' = onOperationResolved(tmo)
  /\ UNCHANGED <<now, rg, monitorDue, retry, hist, fc, ec, ph>>

OpReject ==
  /\ Running(rg)
  /\ tmo.op = "running"
  /\ tmo' = onOperationRejected(tmo)
  /\ UNCHANGED <<now, rg, monitorDue, retry, hist, fc, ec, ph>>

(* ==== FailureClassifier (src/core/failure-classifier.ts) ==== *)
(* A string is the sequence of its characters, so that includes() is       *)
(* computed, case-sensitively, as String.prototype.includes does.          *)
Includes(s, sub) ==
  \E i \in 1..(Len(s) - Len(sub) + 1) : SubSeq(s, i, i + Len(sub) - 1) = sub

(* ---- the string literals of the heuristics ---- *)
(* "timeout" *)
Lit_timeout ==
  <<"t", "i", "m", "e", "o", "u", "t">>

(* "Element not found" *)
Lit_ElementNotFound ==
  <<"E", "l", "e", "m", "e", "n", "t", " ", "n", "o", "t", " ", "f", "o",
    "u", "n", "d">>

(* "not visible" *)
Lit_notVisible ==
  <<"n", "o", "t", " ", "v", "i", "s", "i", "b", "l", "e">>

(* "not attached" *)
Lit_notAttached ==
  <<"n", "o", "t", " ", "a", "t", "t", "a", "c", "h", "e", "d">>

(* "animation" *)
Lit_animation ==
  <<"a", "n", "i", "m", "a", "t", "i", "o", "n">>

(* "transition" *)
Lit_transition ==
  <<"t", "r", "a", "n", "s", "i", "t", "i", "o", "n">>

(* "TypeError" *)
Lit_TypeError ==
  <<"T", "y", "p", "e", "E", "r", "r", "o", "r">>

(* "ReferenceError" *)
Lit_ReferenceError ==
  <<"R", "e", "f", "e", "r", "e", "n", "c", "e", "E", "r", "r", "o", "r">>

(* "Cannot read property" *)
Lit_CannotReadProperty ==
  <<"C", "a", "n", "n", "o", "t", " ", "r", "e", "a", "d", " ", "p", "r",
    "o", "p", "e", "r", "t", "y">>

(* "React" *)
Lit_React ==
  <<"R", "e", "a", "c", "t">>

(* "Vue" *)
Lit_Vue ==
  <<"V", "u", "e">>

(* "component" *)
Lit_component ==
  <<"c", "o", "m", "p", "o", "n", "e", "n", "t">>

(* "ECONNREFUSED" *)
Lit_ECONNREFUSED ==
  <<"E", "C", "O", "N", "N", "R", "E", "F", "U", "S", "E", "D">>

(* "net::ERR_CONNECTION_RESET" *)
Lit_ConnectionReset ==
  <<"n", "e", "t", ":", ":", "E", "R", "R", "_", "C", "O", "N", "N", "E",
    "C", "T", "I", "O", "N", "_", "R", "E", "S", "E", "T">>

(* "ENOTFOUND" *)
Lit_ENOTFOUND ==
  <<"E", "N", "O", "T", "F", "O", "U", "N", "D">>

(* "Session closed" *)
Lit_SessionClosed ==
  <<"S", "e", "s", "s", "i", "o", "n", " ", "c", "l", "o", "s", "e", "d">>

(* "browser has been closed" *)
Lit_browserClosed ==
  <<"b", "r", "o", "w", "s", "e", "r", " ", "h", "a", "s", " ", "b", "e",
    "e", "n", " ", "c", "l", "o", "s", "e", "d">>

(* "not found" *)
Lit_notFound ==
  <<"n", "o", "t", " ", "f", "o", "u", "n", "d">>

(* "/api/" *)
Lit_apiPath ==
  <<"/", "a", "p", "i", "/">>

(* ---- IEEE-754 doubles ---- *)
(* A confidence is a double in [0, 4).  Every double met here is a multiple *)
(* of 2^-55; it is kept as <<hi, lo>> with value (hi * 2^28 + lo) * 2^-55, *)
(* so that += rounds as the hardware does (0.6 + 0.3 < 0.9).                *)
Limb == 268435456

FZero == <<0, 0>>

(* the double a decimal literal h/100 of the source denotes *)
Dbl(h) ==
  CASE h = 20 -> <<26843545, 161061274>>
    [] h = 30 -> <<40265318, 107374182>>
    [] h = 40 -> <<53687091, 53687092>>
    [] h = 50 -> <<67108864, 0>>
    [] h = 60 -> <<80530636, 214748364>>
    [] h = 70 -> <<93952409, 161061272>>
    [] h = 80 -> <<107374182, 107374184>>
    [] h = 90 -> <<120795955, 53687092>>
    [] h = 95 -> <<127506841, 161061272>>

FLess(a, b) == a[1] < b[1] \/ (a[1] = b[1] /\ a[2] < b[2])

FMin(a, b) == IF FLess(b, a) THEN b ELSE a

(* units of 2^-55 in one ulp of a double whose high limb is hi *)
Ulp(hi) ==
  IF hi >= 2 * Limb THEN 32
  ELSE IF hi >= Limb THEN 16
  ELSE IF hi >= Limb \div 2 THEN 8
  ELSE IF hi >= Limb \div 4 THEN 4
  ELSE IF hi >= Limb \div 8 THEN 2
  ELSE 1

(* round the exact sum to the nearest double, ties to even *)
FRound(n) ==
  LET u == Ulp(n[1])
      r == n[2] % u
      down == n[2] - r
      odd == (n[2] \div u) % 2 = 1
      up == 2 * r > u \/ (2 * r = u /\ odd)
      lo == IF up THEN down + u ELSE down
  IN IF r = 0 THEN n
     ELSE IF lo = Limb THEN <<n[1] + 1, 0>> ELSE <<n[1], lo>>

(* a + b of two doubles *)
FAdd(a, b) ==
  LET lo == a[2] + b[2]
  IN FRound(<<a[1] + b[1] + lo \div Limb, lo % Limb>>)


(* ---- Evidence inputs ---- *)
(* "Timeout 30000ms exceeded waiting for selector" *)
Msg_TimeoutExceeded ==
  <<"T", "i", "m", "e", "o", "u", "t", " ", "3", "0", "0", "0", "0", "m",
    "s", " ", "e", "x", "c", "e", "e", "d", "e", "d", " ", "w", "a", "i",
    "t", "i", "n", "g", " ", "f", "o", "r", " ", "s", "e", "l", "e", "c",
    "t", "o", "r">>

(* "timeout 5000ms" *)
Msg_lowerTimeout ==
  <<"t", "i", "m", "e", "o", "u", "t", " ", "5", "0", "0", "0", "m", "s">>

(* "Element not found" *)
Msg_ElementNotFound ==
  <<"E", "l", "e", "m", "e", "n", "t", " ", "n", "o", "t", " ", "f", "o",
    "u", "n", "d">>

(* "button not visible" *)
Msg_notVisible ==
  <<"b", "u", "t", "t", "o", "n", " ", "n", "o", "t", " ", "v", "i", "s",
    "i", "b", "l", "e">>

(* "Session closed" *)
Msg_SessionClosed ==
  <<"S", "e", "s", "s", "i", "o", "n", " ", "c", "l", "o", "s", "e", "d">>

(* "timeout: Element not found, not visible" *)
Msg_several ==
  <<"t", "i", "m", "e", "o", "u", "t", ":", " ", "E", "l", "e", "m", "e",
    "n", "t", " ", "n", "o", "t", " ", "f", "o", "u", "n", "d", ",", " ",
    "n", "o", "t", " ", "v", "i", "s", "i", "b", "l", "e">>

(* "TypeError: x" *)
Con_TypeError ==
  <<"T", "y", "p", "e", "E", "r", "r", "o", "r", ":", " ", "x">>

(* "Cannot read property 'a'" *)
Con_CannotRead ==
  <<"C", "a", "n", "n", "o", "t", " ", "r", "e", "a", "d", " ", "p", "r",
    "o", "p", "e", "r", "t", "y", " ", "'", "a", "'">>

(* "React component" *)
Con_React ==
  <<"R", "e", "a", "c", "t", " ", "c", "o", "m", "p", "o", "n", "e", "n",
    "t">>

(* "animation frame" *)
Con_animation ==
  <<"a", "n", "i", "m", "a", "t", "i", "o", "n", " ", "f", "r", "a", "m",
    "e">>

(* "deprecated" *)
Con_other ==
  <<"d", "e", "p", "r", "e", "c", "a", "t", "e", "d">>

(* "/login" *)
Url_login ==
  <<"/", "l", "o", "g", "i", "n">>

(* "/api/x" *)
Url_api ==
  <<"/", "a", "p", "i", "/", "x">>

(* "/img" *)
Url_img ==
  <<"/", "i", "m", "g">>

(* "connect ECONNREFUSED" *)
Fail_refused ==
  <<"c", "o", "n", "n", "e", "c", "t", " ", "E", "C", "O", "N", "N", "R",
    "E", "F", "U", "S", "E", "D">>

(* "net::ERR_CONNECTION_RESET" *)
Fail_reset ==
  <<"n", "e", "t", ":", ":", "E", "R", "R", "_", "C", "O", "N", "N", "E",
    "C", "T", "I", "O", "N", "_", "R", "E", "S", "E", "T">>

(* "getaddrinfo ENOTFOUND" *)
Fail_dns ==
  <<"g", "e", "t", "a", "d", "d", "r", "i", "n", "f", "o", " ", "E", "N",
    "O", "T", "F", "O", "U", "N", "D">>

(* "timeout" *)
Fail_timeout ==
  <<"t", "i", "m", "e", "o", "u", "t">>

(* an optional string: absent (undefined) or present *)
Absent == [present |-> FALSE, text |-> <<>>]
Text(t) == [present |-> TRUE, text |-> t]

(* an optional list: absent (undefined) or present *)
NoList == [present |-> FALSE, items |-> <<>>]
List(items) == [present |-> TRUE, items |-> items]

Messages ==
  {Absent, Text(Msg_TimeoutExceeded), Text(Msg_lowerTimeout),
   Text(Msg_ElementNotFound), Text(Msg_notVisible), Text(Msg_SessionClosed),
   Text(Msg_several)}

Net(url, status, failure) == [url |-> url, status |-> status, failure |-> failure]

NetPool ==
  <<Net(Url_login, 401, Absent), Net(Url_api, 500, Absent),
    Net(Url_api, 404, Absent), Net(Url_img, 404, Absent),
    Net(Url_api, 503, Absent), Net(Url_api, 422, Absent),
    Net(Url_api, 0, Text(Fail_refused)), Net(Url_api, 0, Text(Fail_reset)),
    Net(Url_api, 0, Text(Fail_dns)), Net(Url_img, 0, Text(Fail_timeout))>>

ConsolePool ==
  <<[text |-> Con_TypeError], [text |-> Con_CannotRead], [text |-> Con_React],
    [text |-> Con_animation], [text |-> Con_other]>>

(* absent, empty, and the lists of one or two pool entries *)
ListsOf(pool) ==
  {NoList, List(<<>>)}
    \cup {List(<<pool[i]>>) : i \in 1..Len(pool)}
    \cup {List(<<pool[i], pool[j]>>) : i \in 1..Len(pool), j \in 2..Len(pool)}

HeapLimit == 100000000

(* performanceMetrics?.memory?.usedJSHeapSize *)
HeapSizes == {Null, HeapLimit, HeapLimit + 1}

EvidenceInputs ==
  {[errorMessage |-> m, networkFailures |-> n, consoleErrors |-> c,
    usedJSHeapSize |-> h] :
     m \in Messages, n \in ListsOf(NetPool), c \in ListsOf(ConsolePool),
     h \in HeapSizes}

(* ---- helpers for optional chaining and array methods ---- *)
(* o?.includes(sub) *)
OptIncludes(o, sub) == o.present /\ Includes(o.text, sub)

(* the elements list?.some(...) and list?.filter(...) visit: none when the *)
(* list is absent                                                          *)
Elems(list) ==
  IF list.present THEN {list.items[i] : i \in 1..Len(list.items)} ELSE {}

(* list.filter(f => f is one of matching).length *)
Count(list, matching) ==
  Cardinality({i \in 1..Len(list.items) : list.items[i] \in matching})

(* list?.length > 0 *)
LengthPositive(list) == list.present /\ Len(list.items) > 0

(* `confidence += w; reasons.push(...)` under `if (cond)`; n is the count   *)
(* interpolated into the reason, Null when there is none                   *)
Acc0 == [confidence |-> FZero, reasons |-> <<>>]

Bump(acc, cond, w, text, n) ==
  IF cond
    THEN [confidence |-> FAdd(acc.confidence, Dbl(w)),
          reasons |-> Append(acc.reasons, [text |-> text, n |-> n])]
    ELSE acc

(* variant: the ceiling is missing *)
capConfidence_none(c) == c

(* Math.min(confidence, 0.95) *)
capConfidence(c) == FMin(c, Dbl(95))

(* the returned Classification (recommendation strings are left out);      *)
(* threw: the heuristic dereferenced an absent field and threw instead     *)
Candidate(type, acc, fixable, threw) ==
  [type |-> type, confidence |-> capConfidence(acc.confidence),
   reasons |-> acc.reasons, fixable |-> fixable, threw |-> threw]

(* ---- the four heuristics ---- *)
classifyAsTestFlake(e) ==
  LET a1 == Bump(Acc0, OptIncludes(e.errorMessage, Lit_timeout),
                 60, "Contains timeout error", Null)
      a2 == Bump(a1, OptIncludes(e.errorMessage, Lit_ElementNotFound),
                 40, "Element not found - possibly race condition", Null)
      a3 == Bump(a2, (\E f \in Elems(e.networkFailures) :
                          OptIncludes(f.failure, Lit_timeout)),
                 30, "Network timeout detected", Null)
      a4 == Bump(a3, \/ OptIncludes(e.errorMessage, Lit_notVisible)
                     \/ OptIncludes(e.errorMessage, Lit_notAttached),
                 50, "Element visibility/attachment issue", Null)
      a5 == Bump(a4, (\E c \in Elems(e.consoleErrors) :
                          \/ Includes(c.text, Lit_animation)
                          \/ Includes(c.text, Lit_transition)),
                 20, "Animation/transition interference detected", Null)
  IN Candidate("TestFlake", a5, TRUE, FALSE)

(* variant: the guard of the console-error block is missing *)
consoleBlockEntered_always(e) == TRUE

(* if (evidence.consoleErrors?.length > 0) *)
consoleBlockEntered(e) == LengthPositive(e.consoleErrors)

(* evidence.consoleErrors.filter(...) inside that block *)
appErrors(e) ==
  Count(e.consoleErrors,
        {c \in Elems(e.consoleErrors) :
           \/ Includes(c.text, Lit_TypeError)
           \/ Includes(c.text, Lit_ReferenceError)
           \/ Includes(c.text, Lit_CannotReadProperty)})

(* variant: 500 itself does not count *)
serverErrors_above500(e) ==
  IF e.networkFailures.present
    THEN Count(e.networkFailures,
               {f \in Elems(e.networkFailures) : f.status > 500})
    ELSE 0

(* evidence.networkFailures?.filter(f => f.status >= 500) || [] *)
serverErrors(e) ==
  IF e.networkFailures.present
    THEN Count(e.networkFailures,
               {f \in Elems(e.networkFailures) : f.status >= 500})
    ELSE 0

clientErrors(e) ==
  IF e.networkFailures.present
    THEN Count(e.networkFailures,
               {f \in Elems(e.networkFailures) :
                  f.status >= 400 /\ f.status < 500})
    ELSE 0

(* variant: the url is not looked at *)
isObviousAppFix_any404(e) ==
  \/ (\E c \in Elems(e.consoleErrors) :
          Includes(c.text, Lit_CannotReadProperty))
  \/ (\E f \in Elems(e.networkFailures) : f.status = 404)

isObviousAppFix(e) ==
  \/ (\E c \in Elems(e.consoleErrors) :
          Includes(c.text, Lit_CannotReadProperty))
  \/ (\E f \in Elems(e.networkFailures) :
          f.status = 404 /\ Includes(f.url, Lit_apiPath))

classifyAsAppRegression(e) ==
  LET entered == consoleBlockEntered(e)
      a1 == Bump(Acc0, entered /\ appErrors(e) > 0,
                 70, "JavaScript errors detected", appErrors(e))
      a2 == Bump(a1, serverErrors(e) > 0,
                 80, "server errors (5xx)", serverErrors(e))
      a3 == Bump(a2, clientErrors(e) > 0,
                 60, "client errors (4xx)", clientErrors(e))
      a4 == Bump(a3, (\E c \in Elems(e.consoleErrors) :
                          \/ Includes(c.text, Lit_React)
                          \/ Includes(c.text, Lit_Vue)
                          \/ Includes(c.text, Lit_component)),
                 50, "Frontend framework error detected", Null)
  IN Candidate("AppRegression", a4,
               FLess(Dbl(80), a4.confidence) /\ isObviousAppFix(e),
               entered /\ ~e.consoleErrors.present)

classifyAsEnvironmentIssue(e) ==
  LET a1 == Bump(Acc0, (\E f \in Elems(e.networkFailures) :
                            OptIncludes(f.failure, Lit_ECONNREFUSED)),
                 90, "Connection refused - service may be down", Null)
      a2 == Bump(a1, (\E f \in Elems(e.networkFailures) :
                          OptIncludes(f.failure, Lit_ConnectionReset)),
                 80, "Connection reset - network instability", Null)
      a3 == Bump(a2, (\E f \in Elems(e.networkFailures) :
                          OptIncludes(f.failure, Lit_ENOTFOUND)),
                 90, "DNS resolution failed", Null)
      a4 == Bump(a3, \/ OptIncludes(e.errorMessage, Lit_SessionClosed)
                     \/ OptIncludes(e.errorMessage, Lit_browserClosed),
                 80, "Browser session terminated unexpectedly", Null)
      heapRead == Truthy(e.usedJSHeapSize)
      a5 == Bump(a4, heapRead /\ e.usedJSHeapSize > HeapLimit,
                 30, "High memory usage detected", Null)
  IN Candidate("EnvironmentIssue", a5, FALSE,
               heapRead /\ e.usedJSHeapSize = Null)

(* variant: the wrong status is taken for an authentication failure *)
authFailure_403(e) == (\E f \in Elems(e.networkFailures) :
                           f.status = 403)

(* evidence.networkFailures?.some(f => f.status === 401) *)
authFailure(e) == (\E f \in Elems(e.networkFailures) :
                       f.status = 401)

classifyAsDataProblem(e) ==
  LET a1 == Bump(Acc0, authFailure(e),
                 70, "Authentication failure detected", Null)
      a2 == Bump(a1, /\ OptIncludes(e.errorMessage, Lit_notFound)
                     /\ (\E f \in Elems(e.networkFailures) :
                             f.status = 404),
                 60, "Test data not found (404)", Null)
      a3 == Bump(a2, (\E f \in Elems(e.networkFailures) :
                          f.status = 503),
                 50, "Service unavailable - possible database issue", Null)
      a4 == Bump(a3, (\E f \in Elems(e.networkFailures) :
                          f.status = 422),
                 40, "Validation error - data format issue", Null)
  IN Candidate("DataProblem", a4, FALSE, FALSE)

(* ---- classify ---- *)
(* variant: on equal confidence the later candidate replaces the earlier *)
better_lastWins(best, current) ==
  IF FLess(current.confidence, best.confidence) THEN best ELSE current

(* variant: the comparison of the reduce callback is reversed *)
better_reversed(best, current) ==
  IF FLess(current.confidence, best.confidence) THEN current ELSE best

(* (best, current) => current.confidence > best.confidence ? current : best *)
better(best, current) ==
  IF FLess(best.confidence, current.confidence) THEN current ELSE best

(* classifications.reduce(callback): no initial value, left to right *)
RECURSIVE reduceFrom(_, _, _)
reduceFrom(cs, i, best) ==
  IF i > Len(cs) THEN best ELSE reduceFrom(cs, i + 1, better(best, cs[i]))

bestMatch(cs) == reduceFrom(cs, 2, cs[1])

candidates(e) ==
  <<classifyAsTestFlake(e), classifyAsAppRegression(e),
    classifyAsEnvironmentIssue(e), classifyAsDataProblem(e)>>

(* the settled promise of classify(evidence) *)
classify(e) ==
  LET cs == candidates(e)
  IN IF \E i \in 1..Len(cs) : cs[i].threw
       THEN [status |-> "rejected", winner |-> cs[1], allClassifications |-> <<>>]
       ELSE [status |-> "resolved", winner |-> bestMatch(cs),
             allClassifications |-> cs]

NoResult == [status |-> "pending"]

MaxClassifyCalls == 2

(* classifier.classify(evidence) is called on the evidence at hand; the    *)
(* caller keeps the result of the call before                              *)
Classify ==
  /\ fc.pc \in {"ready", "done"}
  /\ fc.calls < MaxClassifyCalls
  /\ fc' = [fc EXCEPT !.pc = "done", !.calls = @ + 1, !.previous = fc.result,
                      !.result = classify(fc.evidence)]
  /\ UNCHANGED <<now, rg, monitorDue, retry, tmo, hist, ec, ph>>


(* ==== EvidenceCollector (src/core/evidence-collector.ts) ==== *)
(* The page and the file system are the environment: every awaited page    *)
(* operation and every file operation either resolves or throws.           *)
(* page.url() and page.viewportSize() read values cached in the page       *)
(* object and are part of the step that reaches the next real await.       *)

(* the bundle keys, in the order of the array given to Promise.allSettled *)
CaptureTypes ==
  <<"screenshot", "domSnapshot", "consoleErrors", "networkFailures",
    "performanceMetrics", "localStorage", "accessibility">>

Captures == 1..Len(CaptureTypes)

(* what a capture awaits first: consoleErrors and networkFailures read a   *)
(* property of the page object and go straight to fs.writeFile             *)
firstAwait(i) ==
  IF CaptureTypes[i] \in {"consoleErrors", "networkFailures"}
    THEN "file" ELSE "page"

(* where a capture stands once its page operation resolved:                *)
(* page.screenshot writes the file itself, the others call fs.writeFile    *)
afterPage(i) == IF CaptureTypes[i] = "screenshot" THEN "settled" ELSE "file"

(* the messages of the errors the environment throws *)
PageError == "Target crashed"

FileError == "ENOSPC"

Pending == [status |-> "pending", captured |-> "undefined", error |-> None]

(* the value a capture returns from its try block: only the screenshot and *)
(* the DOM snapshot set captured: true                                     *)
captureValue(i) ==
  [status |-> "fulfilled",
   captured |-> IF CaptureTypes[i] \in {"screenshot", "domSnapshot"}
                  THEN "true" ELSE "undefined",
   error |-> None]

(* variant: the capture has no try/catch and its promise rejects *)
captureCaught_unwrapped(i, message) ==
  [status |-> "rejected", captured |-> "undefined", error |-> message]

(* the catch block of a capture: it returns, so the promise fulfils *)
captureCaught(i, message) ==
  [status |-> "fulfilled", captured |-> "false", error |-> message]

IdleCapture == [pc |-> "idle", result |-> Pending, threw |-> None]

(* a bundle key that was never assigned *)
Missing == [captured |-> "absent", error |-> None]

NewCollector ==
  [pc |-> "idle", caps |-> [i \in Captures |-> IdleCapture],
   evidence |-> [i \in Captures |-> Missing], manifest |-> <<>>,
   thrown |-> None, firstSettled |-> 0]

(* variant: the first settlement resumes collect() *)
collectionsSettled_first(caps) == \E i \in Captures : caps[i].pc = "settled"

(* Promise.allSettled resolves when every promise has settled *)
collectionsSettled(caps) == \A i \in Captures : caps[i].pc = "settled"

(* collections.forEach: fulfilled results are stored under their key *)
processResults(caps) ==
  [i \in Captures |->
     IF caps[i].result.status = "fulfilled"
       THEN [captured |-> caps[i].result.captured, error |-> caps[i].result.error]
       ELSE Missing]

(* collect(page, failure) is called and awaits fs.mkdir *)
Collect ==
  /\ ec.pc = "idle"
  /\ ec' = [ec EXCEPT !.pc = "mkdir"]
  /\ UNCHANGED <<now, rg, monitorDue, retry, tmo, hist, fc, ph>>

(* fs.mkdir settles; on success the bundle header is built up to the       *)
(* await of page.evaluate(() => navigator.userAgent)                       *)
MkdirSettled ==
  /\ ec.pc = "mkdir"
  /\ \E ok \in BOOLEAN :
       ec' = IF ok THEN [ec EXCEPT !.pc = "userAgent"]
                   ELSE [ec EXCEPT !.pc = "rejected", !.thrown = "mkdir"]
  /\ UNCHANGED <<now, rg, monitorDue, retry, tmo, hist, fc, ph>>

(* page.evaluate of the header settles; on success the seven captures are  *)
(* called one after the other, each running up to its first await          *)
UserAgentSettled ==
  /\ ec.pc = "userAgent"
  /\ \E ok \in BOOLEAN :
       ec' = IF ok
               THEN [ec EXCEPT !.pc = "collecting",
                               !.caps = [i \in Captures |->
                                           [IdleCapture EXCEPT !.pc = firstAwait(i)]]]
               ELSE [ec EXCEPT !.pc = "rejected", !.thrown = "page.evaluate"]
  /\ UNCHANGED <<now, rg, monitorDue, retry, tmo, hist, fc, ph>>

(* the operation capture i awaits settles *)
settleCapture(c, i, ok) ==
  IF ok
    THEN IF c.pc = "page" /\ afterPage(i) = "file"
           THEN [c EXCEPT !.pc = "file"]
           ELSE [c EXCEPT !.pc = "settled", !.result = captureValue(i)]
    ELSE LET message == IF c.pc = "page" THEN PageError ELSE FileError
         IN [c EXCEPT !.pc = "settled", !.result = captureCaught(i, message),
                      !.threw = message]

CaptureSettled(i) ==
  /\ ec.caps[i].pc \in {"page", "file"}
  /\ \E ok \in BOOLEAN :
       LET c2 == settleCapture(ec.caps[i], i, ok)
       IN ec' = [ec EXCEPT !.caps[i] = c2,
                           !.firstSettled =
                              IF @ = 0 /\ c2.pc = "settled" THEN i ELSE @]
  /\ UNCHANGED <<now, rg, monitorDue, retry, tmo, hist, fc, ph>>

(* allSettled resolves: the results are processed and the manifest write   *)
(* is awaited                                                              *)
ProcessResults ==
  /\ ec.pc = "collecting"
  /\ collectionsSettled(ec.caps)
  /\ ec' = [ec EXCEPT !.pc = "writing", !.evidence = processResults(ec.caps)]
  /\ UNCHANGED <<now, rg, monitorDue, retry, tmo, hist, fc, ph>>

(* fs.writeFile of evidence.json settles; on success collect() returns *)
ManifestSettled ==
  /\ ec.pc = "writing"
  /\ \E ok \in BOOLEAN :
       ec' = IF ok THEN [ec EXCEPT !.pc = "returned", !.manifest = <<ec.evidence>>]
                   ELSE [ec EXCEPT !.pc = "rejected", !.thrown = "writeFile"]
  /\ UNCHANGED <<now, rg, monitorDue, retry, tmo, hist, fc, ph>>

(* ==== PageHealthScorer (src/core/page-health.ts) ==== *)
(* The observation logs keep the timestamp of every pushed entry; Date.now *)
(* is `now`.  The page is the environment: it emits events, and its two    *)
(* page.evaluate calls resolve with a value or throw.                      *)
MaxElapses == 2
MaxObservations == 2
MaxAssessments == 2

RecencyWindowMs == 5000
SlowPaintMs == 3000

(* the amounts of time that pass between two steps *)
ElapseSteps == {1, RecencyWindowMs - 1}

(* first-contentful-paint values the page reports; Null: no paint entry *)
PaintTimes == {Null, SlowPaintMs - 1, SlowPaintMs, SlowPaintMs + 1}

Issue(severity, count) == [severity |-> severity, count |-> count]

(* the lists checkAccessibilityIssues finds on a page *)
IssueLists ==
  {<<>>,
   <<Issue("medium", 2), Issue("low", 1)>>,
   <<Issue("medium", 3), Issue("high", 8)>>}

NoAssessment ==
  [score |-> 0, fcp |-> Null, at |-> 0,
   consoleErrors |-> <<>>, networkFailures |-> <<>>]

(* reports: the last two reports returned, each with the inputs it was     *)
(* computed from; assessed: the number of calls that have returned         *)
NewScorer ==
  [pc |-> "idle", consoleErrors |-> <<>>, networkFailures |-> <<>>,
   cur |-> NoAssessment, reports |-> <<>>, assessed |-> 0, elapses |-> 0]

Observations(p) == Len(p.consoleErrors) + Len(p.networkFailures)

Max(a, b) == IF a >= b THEN a ELSE b

(* variant: an observation exactly 5000 ms old still counts *)
isRecent_inclusive(t, entry) == (t - entry.timestamp) <= RecencyWindowMs

(* variant: only observations of this very millisecond count *)
isRecent_instant(t, entry) == (t - entry.timestamp) < 1

(* (Date.now() - error.timestamp) < 5000 *)
isRecent(t, entry) == (t - entry.timestamp) < RecencyWindowMs

(* log.filter(entry => recent).length *)
recentCount(log, t) == Cardinality({i \in 1..Len(log) : isRecent(t, log[i])})

(* performanceMetrics?.firstContentfulPaint && ... > 3000; metrics is Null *)
(* when the capture threw                                                  *)
slowPaint(fcp) == Truthy(fcp) /\ fcp > SlowPaintMs

(* the switch on issue.severity *)
severityWeight(severity) ==
  CASE severity = "high" -> 10
    [] severity = "medium" -> 5
    [] severity = "low" -> 2
    [] OTHER -> 5

(* accessibilityIssues.reduce((penalty, issue) => ..., 0) *)
RECURSIVE totalPenalty(_, _, _)
totalPenalty(issues, i, penalty) ==
  IF i > Len(issues) THEN penalty
  ELSE totalPenalty(issues, i + 1,
                    penalty + issues[i].count * severityWeight(issues[i].severity))

(* the part of assessPageHealth between its two awaits *)
scoreObservations(p, fcp, t) ==
  LET errors == recentCount(p.consoleErrors, t)
      failures == recentCount(p.networkFailures, t)
      s1 == IF errors > 0 THEN 100 - errors * 10 ELSE 100
      s2 == IF failures > 0 THEN s1 - failures * 15 ELSE s1
      s3 == IF slowPaint(fcp) THEN s2 - 20 ELSE s2
  IN [score |-> s3, fcp |-> fcp, at |-> t,
      consoleErrors |-> p.consoleErrors, networkFailures |-> p.networkFailures]

(* the part after the second await; every term is an integer, so           *)
(* Math.round leaves the clamped score as it is                            *)
finishAssessment(cur, issues) ==
  LET s4 == IF Len(issues) > 0 THEN cur.score - totalPenalty(issues, 1, 0)
                               ELSE cur.score
  IN Max(0, s4)

lastTwo(reports) ==
  IF Len(reports) > 2 THEN SubSeq(reports, Len(reports) - 1, Len(reports))
                      ELSE reports

(* time passes *)
Elapse ==
  /\ ph.elapses < MaxElapses
  /\ \E d \in ElapseSteps : now' = now + d
  /\ ph' = [ph EXCEPT !.elapses = @ + 1]
  /\ UNCHANGED <<rg, monitorDue, retry, tmo, hist, fc, ec>>

(* page.on('console') *)
OnConsole ==
  /\ Observations(ph) < MaxObservations
  /\ \E type \in {"log", "error", "warning"} :
       ph' = IF type \in {"error", "warning"}
               THEN [ph EXCEPT !.consoleErrors = Append(@, [timestamp |-> now])]
               ELSE ph
  /\ UNCHANGED <<now, rg, monitorDue, retry, tmo, hist, fc, ec>>

(* page.on('pageerror') *)
OnPageError ==
  /\ Observations(ph) < MaxObservations
  /\ ph' = [ph EXCEPT !.consoleErrors = Append(@, [timestamp |-> now])]
  /\ UNCHANGED <<now, rg, monitorDue, retry, tmo, hist, fc, ec>>

(* page.on('response') *)
OnResponse ==
  /\ Observations(ph) < MaxObservations
  /\ \E status \in {200, 399, 400, 500} :
       ph' = IF status >= 400
               THEN [ph EXCEPT !.networkFailures = Append(@, [timestamp |-> now])]
               ELSE ph
  /\ UNCHANGED <<now, rg, monitorDue, retry, tmo, hist, fc, ec>>

(* page.on('requestfailed') *)
OnRequestFailed ==
  /\ Observations(ph) < MaxObservations
  /\ ph' = [ph EXCEPT !.networkFailures = Append(@, [timestamp |-> now])]
  /\ UNCHANGED <<now, rg, monitorDue, retry, tmo, hist, fc, ec>>

(* assessPageHealth(page) is called and awaits capturePerformanceMetrics *)
Assess ==
  /\ ph.pc = "idle"
  /\ ph.assessed < MaxAssessments
  /\ ph' = [ph EXCEPT !.pc = "perf"]
  /\ UNCHANGED <<now, rg, monitorDue, retry, tmo, hist, fc, ec>>

(* the metrics arrive (Null when page.evaluate threw): errors, failures    *)
(* and paint are scored, then checkAccessibilityIssues is awaited          *)
MetricsSettled ==
  /\ ph.pc = "perf"
  /\ \E ok \in BOOLEAN, paint \in PaintTimes :
       /\ ~ok => paint = Null
       /\ ph' = [ph EXCEPT !.pc = "a11y",
                           !.cur = scoreObservations(ph, paint, now)]
  /\ UNCHANGED <<now, rg, monitorDue, retry, tmo, hist, fc, ec>>

(* the issues arrive (none when page.evaluate threw) and the report is     *)
(* returned                                                                *)
IssuesSettled ==
  /\ ph.pc = "a11y"
  /\ \E ok \in BOOLEAN, found \in IssueLists :
       /\ ~ok => found = <<>>
       /\ ph' = [ph EXCEPT
            !.pc = "idle",
            !.cur = NoAssessment,
            !.assessed = @ + 1,
            !.reports = lastTwo(Append(@,
               [score |-> finishAssessment(ph.cur, found),
                fcp |-> ph.cur.fcp, issues |-> found, at |-> ph.cur.at,
                consoleErrors |-> ph.cur.consoleErrors,
                networkFailures |-> ph.cur.networkFailures]))]
  /\ UNCHANGED <<now, rg, monitorDue, retry, tmo, hist, fc, ec>>

(* ---- specifications ---- *)
(* breaker, monitor and single-attempt withRetry calls *)
Next ==
  \/ Tick
  \/ MonitorCheck(MemoryReadings)
  \/ RecordFailure
  \/ RecordSuccess
  \/ StartRetry(1, 1)
  \/ AttemptOk(1)
  \/ AttemptFail(1)

Spec == Init /\ [][Next]_vars

(* withRetry calls of every length and healing attempts, with the monitor  *)
(* running                                                                 *)
InitRetry == InitWith(RetryRunTime)

NextRetry ==
  \/ Tick
  \/ MonitorCheck({WithinLimitMB})
  \/ RecordHealingAttempt
  \/ \E n \in 0..MaxRetriesArgLong : StartRetry(1, n)
  \/ AttemptOk(1)
  \/ AttemptFail(1)
  \/ SleepDone(1)

SpecRetry == InitRetry /\ [][NextRetry]_vars

(* concurrent withRetry calls sharing the guard, with the monitor running *)
NextShared ==
  \/ Tick
  \/ MonitorCheck({WithinLimitMB})
  \/ \E c \in Calls, n \in 1..2 : StartRetry(c, n)
  \/ \E c \in Calls : AttemptOk(c)
  \/ \E c \in Calls : AttemptFail(c)
  \/ \E c \in Calls : SleepDone(c)

SpecShared == Init /\ [][NextShared]_vars

(* withTimeout calls, with the monitor running *)
NextTimeout ==
  \/ Tick
  \/ MonitorCheck({WithinLimitMB})
  \/ \E name \in OpNames, t \in TimeoutArgs : StartTimeout(name, t)
  \/ TimerFire
  \/ OpFulfil
  \/ OpReject

SpecTimeout == Init /\ [][NextTimeout]_vars

(* one classify() call on any of the evidence inputs *)
InitClassify ==
  /\ InitGuard(MaxRunTime)
  /\ fc \in {[pc |-> "ready", evidence |-> e, result |-> NoResult,
                previous |-> NoResult, calls |-> 0] : e \in EvidenceInputs}
  /\ ec = NoCollector
  /\ ph = NoScorer

NextClassify == Classify

SpecClassify == InitClassify /\ [][NextClassify]_vars

(* one collect() call against a page and a file system that may fail *)
InitCollect ==
  /\ InitGuard(MaxRunTime)
  /\ fc = NoClassifier
  /\ ec = NewCollector
  /\ ph = NoScorer

NextCollect ==
  \/ Collect
  \/ MkdirSettled
  \/ UserAgentSettled
  \/ \E i \in Captures : CaptureSettled(i)
  \/ ProcessResults
  \/ ManifestSettled

SpecCollect == InitCollect /\ [][NextCollect]_vars

(* a scorer attached to a page: events, passing time and assessments *)
InitHealth ==
  /\ InitGuard(MaxRunTime)
  /\ fc = NoClassifier
  /\ ec = NoCollector
  /\ ph = NewScorer

NextHealth ==
  \/ Elapse
  \/ OnConsole
  \/ OnPageError
  \/ OnResponse
  \/ OnRequestFailed
  \/ Assess
  \/ MetricsSettled
  \/ IssuesSettled

SpecHealth == InitHealth /\ [][NextHealth]_vars

(* the guard once the breaker has tripped: threshold failures recorded at  *)
(* time t on a fresh guard                                                 *)
RECURSIVE recordFailures(_, _, _)
recordFailures(g, k, t) ==
  IF k = 0 THEN g ELSE recordFailures(recordCircuitBreakerFailure(g, t), k - 1, t)

InitOpen ==
  /\ now = StartTime
  /\ rg = recordFailures(NewGuard(MaxRunTime),
                         NewGuard(MaxRunTime).circuitBreaker.threshold, StartTime)
  /\ monitorDue = FALSE
  /\ retry = [c \in Calls |-> IdleRetry]
  /\ tmo = IdleTimeout
  /\ hist = [NewHist EXCEPT
               !.freshFailures = NewGuard(MaxRunTime).circuitBreaker.threshold]
  /\ fc = NoClassifier
  /\ ec = NoCollector
  /\ ph = NoScorer

(* withRetry and withTimeout calls made after the breaker has tripped, with *)
(* the monitor running                                                     *)
NextOpen ==
  \/ Tick
  \/ MonitorCheck({WithinLimitMB})
  \/ \E n \in 1..2 : StartRetry(1, n)
  \/ AttemptOk(1)
  \/ AttemptFail(1)
  \/ SleepDone(1)
  \/ \E name \in OpNames : StartTimeout(name, 0)
  \/ TimerFire
  \/ OpFulfil
  \/ OpReject

SpecOpen == InitOpen /\ [][NextOpen]_vars

(* the bare breaker after it has tripped: failures, successes and the      *)
(* monitor                                                                 *)
NextTripped ==
  \/ Tick
  \/ MonitorCheck({WithinLimitMB})
  \/ RecordFailure
  \/ RecordSuccess

SpecTripped == InitOpen /\ [][NextTripped]_vars

(* ---- properties ---- *)
CB == rg.circuitBreaker
Threshold == NewGuard(0).circuitBreaker.threshold
Cooldown == NewGuard(0).circuitBreaker.timeout

(* a step in which recordCircuitBreakerFailure ran (directly or from the   *)
(* last attempt of withRetry): nothing else increments the counter         *)
FailureRecorded == rg'.circuitBreaker.failures = CB.failures + 1

(* a step of the monitor callback *)
MonitorRan == monitorDue /\ ~monitorDue'

(* C1: from a fresh guard, with no success recorded: fewer than threshold  *)
(* recordCircuitBreakerFailure calls leave the breaker CLOSED and          *)
(* canProceed() true; the call that is exactly the threshold-th leaves it  *)
(* OPEN with lastFailure stamped with the time of the call and             *)
(* canProceed() false.                                                     *)
C1_TripAtThreshold ==
  /\ [](hist.freshFailures # Null /\ hist.freshFailures < Threshold
          => CB.state = "CLOSED" /\ canProceed(rg))
  /\ [][hist.freshFailures # Null /\ hist.freshFailures = Threshold - 1
          /\ hist'.freshFailures = Threshold
          => /\ rg'.circuitBreaker.state = "OPEN"
             /\ rg'.circuitBreaker.lastFailure = now
             /\ ~canProceed(rg')]_vars

C1_Witness ==
  /\ hist.freshFailures = Threshold
  /\ CB.state = "OPEN"
  /\ CB.lastFailure # Null
  /\ ~canProceed(rg)

(* C2: a monitor check that finds the breaker OPEN (and does not end the   *)
(* process for a resource limit) sets it HALF_OPEN when more than the      *)
(* cooldown has passed since lastFailure and leaves it OPEN when less has  *)
(* passed; recordCircuitBreakerSuccess in HALF_OPEN gives CLOSED with      *)
(* failures = 0.                                                           *)
C2_CooldownThenClose ==
  /\ [][MonitorRan /\ CB.state = "OPEN" /\ Running(rg')
          => /\ now - CB.lastFailure > Cooldown
                  => rg'.circuitBreaker.state = "HALF_OPEN"
             /\ now - CB.lastFailure < Cooldown
                  => rg'.circuitBreaker.state = "OPEN"]_vars
  /\ [][RecordSuccess /\ CB.state = "HALF_OPEN"
          => /\ rg'.circuitBreaker.state = "CLOSED"
             /\ rg'.circuitBreaker.failures = 0]_vars

(* closed again after a trip: only OPEN -> HALF_OPEN -> CLOSED leads here *)
C2_Witness ==
  /\ CB.state = "CLOSED"
  /\ CB.failures = 0
  /\ CB.lastFailure # Null
  /\ now - CB.lastFailure > Cooldown

(* C3: in HALF_OPEN the next recorded failure re-opens the breaker *)
C3_HalfOpenFailureReopens ==
  [][CB.state = "HALF_OPEN" /\ FailureRecorded
       => rg'.circuitBreaker.state = "OPEN" /\ ~canProceed(rg')]_vars

(* C4 as claimed: OPEN implies failures >= threshold and lastFailure set *)
C4_OpenImpliesAtThreshold ==
  CB.state = "OPEN" => CB.failures >= CB.threshold /\ CB.lastFailure # Null

(* C4 amended: whenever the breaker is OPEN, lastFailure is non-null, and  *)
(* the failure counter is at least threshold unless                        *)
(* recordCircuitBreakerSuccess was called since the breaker last opened    *)
(* (it resets the counter and leaves the state OPEN).                      *)
C4_OpenCounter ==
  CB.state = "OPEN" =>
    /\ CB.lastFailure # Null
    /\ CB.failures >= CB.threshold \/ hist.successSinceOpen

C4_Witness ==
  /\ CB.state = "OPEN"
  /\ hist.successSinceOpen
  /\ CB.failures > 0
  /\ CB.failures < CB.threshold
  /\ retry[1].pc = "thrown"

(* ---- withRetry ---- *)
R == retry[1]

AllErr(o) == \A k \in 1..Len(o) : o[k] = "err"

(* C5: a withRetry call whose every attempt throws makes exactly n         *)
(* attempts (3 when n is omitted), sleeps n-1 times, never after the last  *)
(* attempt, and re-throws the error of the last attempt; attempt k+1       *)
(* starts only from the finished sleep that followed the failure of        *)
(* attempt k.                                                              *)
C5_ExhaustedRetry ==
  /\ [](R.pc # "idle" => R.retries = IF R.arg = 0 THEN 3 ELSE R.arg)
  /\ [](R.pc = "thrown"
          => /\ AllErr(R.outcomes)
             /\ Len(R.outcomes) = R.retries
             /\ Len(R.sleeps) = R.retries - 1
             /\ R.thrown = R.retries)
  /\ [](R.pc \in {"running", "sleeping", "returned"} /\ AllErr(R.outcomes)
          => Len(R.outcomes) < R.retries)
  /\ [](R.pc = "running"
          => Len(R.outcomes) = R.attempt - 1 /\ Len(R.sleeps) = R.attempt - 1)
  /\ [](R.pc = "sleeping"
          => Len(R.outcomes) = R.attempt /\ Len(R.sleeps) = R.attempt)
  /\ [][R.attempt > 0 /\ retry'[1].attempt = R.attempt + 1
          => /\ R.pc = "sleeping"
             /\ now >= R.wakeAt
             /\ R.outcomes[R.attempt] = "err"]_vars

C5_Witness ==
  /\ R.pc = "thrown"
  /\ R.arg = 3
  /\ Len(R.outcomes) = 3
  /\ Len(R.sleeps) = 2
  /\ R.thrown = 3

(* C6: the step in which the last attempt fails adds one to the breaker's  *)
(* failure counter and to retriesUsed; the failure of an earlier attempt   *)
(* adds one to retriesUsed only; no other step of the call, in particular  *)
(* a successful attempt, changes either counter.                           *)
C6_RetryCounters ==
  [][/\ (R.pc = "running" /\ retry'[1].pc = "thrown")
          => /\ rg'.circuitBreaker.failures = CB.failures + 1
             /\ rg'.stats.retriesUsed = rg.stats.retriesUsed + 1
     /\ (R.pc = "running" /\ retry'[1].pc = "sleeping")
          => /\ rg'.circuitBreaker = CB
             /\ rg'.stats.retriesUsed = rg.stats.retriesUsed + 1
     /\ ~(R.pc = "running" /\ retry'[1].pc \in {"thrown", "sleeping"})
          => /\ rg'.circuitBreaker.failures = CB.failures
             /\ rg'.stats.retriesUsed = rg.stats.retriesUsed]_vars

(* a first call of three failed attempts: one breaker failure, three retries *)
C6_Witness ==
  /\ R.pc = "thrown"
  /\ R.retries = 3
  /\ CB.failures = 1
  /\ rg.stats.retriesUsed = 3

BackoffTable == <<1000, 2000, 4000, 8000, 10000>>

(* C7: the k-th wait of a call is 1000, 2000, 4000, 8000 ms and 10000 ms   *)
(* from the fifth on, so waits never decrease and never exceed 10000 ms    *)
C7_BackoffSchedule ==
  \A k \in 1..Len(R.sleeps) :
     /\ R.sleeps[k] = IF k <= 5 THEN BackoffTable[k] ELSE 10000
     /\ R.sleeps[k] <= 10000
     /\ k > 1 => R.sleeps[k] >= R.sleeps[k - 1]

C7_Witness ==
  /\ Len(R.sleeps) >= 6
  /\ R.sleeps[4] = 8000
  /\ R.sleeps[6] = 10000

(* ---- withTimeout ---- *)
Started == tmo.op # "running" /\ tmo'.op = "running"

(* C8: the timer is armed only while the operation is unsettled and the    *)
(* promise pending; when it fires the promise is rejected with the timeout *)
(* error naming the operation and the operation keeps running; when the    *)
(* operation settles first the promise takes its result or error and the   *)
(* timer is cleared; a settled promise never changes during the call.      *)
C8_TimeoutRace ==
  /\ [](tmo.timer => tmo.op = "running" /\ ~tmo.promise.settled)
  /\ [](tmo.promise.outcome.kind \in {"result", "opError"} => ~tmo.timer)
  /\ [][TimerFire
          => /\ tmo'.promise.settled
             /\ tmo'.promise.outcome =
                   [kind |-> "timeout", name |-> tmo.name, ms |-> tmo.timeout]
             /\ tmo'.op = "running"]_vars
  /\ [][OpFulfil /\ ~tmo.promise.settled
          => tmo'.promise.outcome.kind = "result" /\ ~tmo'.timer]_vars
  /\ [][OpReject /\ ~tmo.promise.settled
          => tmo'.promise.outcome.kind = "opError" /\ ~tmo'.timer]_vars
  /\ [][tmo.promise.settled /\ ~Started => tmo'.promise = tmo.promise]_vars

(* the operation finished after the timeout had been reported *)
C8_Witness ==
  /\ tmo.promise.outcome.kind = "timeout"
  /\ tmo.promise.outcome.name = "login"
  /\ tmo.op = "fulfilled"
  /\ tmo.settles = 2

(* ---- shutdown ---- *)
(* C9 as claimed: a transition to OPEN ends the process *)
C9_TripIsFatal ==
  [][CB.state # "OPEN" /\ rg'.circuitBreaker.state = "OPEN" => ~Running(rg')]_vars

(* C9 amended: a circuit-breaker trip is not process-fatal: the step that  *)
(* moves the breaker to OPEN leaves the process running with the monitor   *)
(* still scheduled and canProceed() false, and no                          *)
(* recordCircuitBreakerFailure call enters emergency shutdown.             *)
C9_TripKeepsRunning ==
  /\ [][CB.state # "OPEN" /\ rg'.circuitBreaker.state = "OPEN"
          => Running(rg') /\ rg'.monitoringInterval /\ ~canProceed(rg')]_vars
  /\ [][FailureRecorded => Running(rg')]_vars

(* the guard is still running a monitor interval after the trip *)
C9_Witness ==
  /\ CB.state = "OPEN"
  /\ Running(rg)
  /\ CB.failures >= CB.threshold
  /\ now - CB.lastFailure >= MonitorIntervalMs

(* C10 as claimed: memory shutdown exactly at three over-limit checks in a *)
(* row                                                                     *)
C10_ThirdConsecutive ==
  /\ hist.consecOver >= 3 => rg.shutdownReason = "MAX_MEMORY"
  /\ rg.shutdownReason = "MAX_MEMORY" => hist.consecOver = 3

(* C10 amended: the monitor shuts down for memory on the fourth over-limit *)
(* check since construction; each of the first three only increments       *)
(* resourceWarnings; the counter is never reset, so over-limit checks      *)
(* separated by within-limit checks count as well.                         *)
C10_FourthCumulative ==
  /\ rg.stats.resourceWarnings = hist.overChecks
  /\ rg.shutdownReason = "MAX_MEMORY" <=> hist.overChecks = 4
  /\ hist.overChecks <= 3 => rg.shutdownReason # "MAX_MEMORY"
  /\ hist.overChecks <= 4

(* shut down for memory although no three over-limit checks were in a row *)
C10_Witness ==
  /\ rg.shutdownReason = "MAX_MEMORY"
  /\ rg.exitCode = 1
  /\ hist.overChecks = 4
  /\ hist.consecOver = 1

(* C11: a monitor check that finds runtime > maxRunTime ends the process   *)
(* with exit code 1 and the monitor cancelled; a check with runtime <=     *)
(* maxRunTime does not shut down for runtime; after the exit nothing       *)
(* happens any more (no check, no breaker transition, no counter update).  *)
C11_RuntimeShutdownTerminal ==
  /\ [][MonitorRan /\ now - rg.stats.startTime > rg.limits.maxRunTime
          => /\ rg'.exitCode = 1
             /\ rg'.shutdownReason = "MAX_RUNTIME"
             /\ ~rg'.monitoringInterval
             /\ rg'.circuitBreaker = rg.circuitBreaker
             /\ rg'.stats = rg.stats]_vars
  /\ [][MonitorRan /\ now - rg.stats.startTime <= rg.limits.maxRunTime
          => rg'.shutdownReason # "MAX_RUNTIME"]_vars
  /\ [](~Running(rg) => rg.exitCode = 1 /\ ~rg.monitoringInterval)
  /\ [][Running(rg)]_vars

(* shut down for runtime by the first check past the limit, breaker open *)
C11_Witness ==
  /\ rg.shutdownReason = "MAX_RUNTIME"
  /\ rg.exitCode = 1
  /\ ~rg.monitoringInterval
  /\ now - rg.stats.startTime = rg.limits.maxRunTime + MonitorIntervalMs
  /\ CB.state = "OPEN"

(* ---- shared guard state ---- *)
AllDone == \A c \in Calls : retry[c].pc \in {"idle", "returned", "thrown"}

(* C12 as claimed: once all calls have finished with no success recorded,  *)
(* failures = exhausted calls, retriesUsed = failed attempts, and the      *)
(* breaker is OPEN exactly when failures >= threshold                      *)
C12_NoLostUpdateOpen ==
  AllDone /\ hist.freshFailures # Null =>
    /\ CB.failures = hist.exhausted
    /\ rg.stats.retriesUsed = hist.failedAttempts
    /\ CB.state = "OPEN" <=> CB.failures >= CB.threshold

(* C12 amended: once all calls have finished with no success recorded,     *)
(* failures = exhausted calls and retriesUsed = failed attempts (no lost   *)
(* update), and the breaker has left CLOSED exactly when failures >=       *)
(* threshold: it is OPEN, or HALF_OPEN once a monitor check has found the  *)
(* cooldown elapsed.                                                       *)
C12_NoLostUpdate ==
  AllDone /\ hist.freshFailures # Null =>
    /\ CB.failures = hist.exhausted
    /\ rg.stats.retriesUsed = hist.failedAttempts
    /\ CB.state # "CLOSED" <=> CB.failures >= CB.threshold
    /\ CB.state = "HALF_OPEN" => now - CB.lastFailure > Cooldown

(* two calls of two attempts each ended together and tripped the breaker *)
C12_Witness ==
  /\ AllDone
  /\ retry[1].pc = "thrown" /\ retry[1].retries = 2
  /\ retry[2].pc = "thrown" /\ retry[2].retries = 2
  /\ retry[1].sleeps # <<>> /\ retry[2].sleeps # <<>>
  /\ hist.exhausted = Threshold
  /\ CB.state = "OPEN"
  /\ rg.stats.retriesUsed > Threshold

(* C13: canAttemptHealing() is true exactly while fewer than 2             *)
(* recordHealingAttempt calls were made since construction, and once false *)
(* it stays false; a recordHealingAttempt call changes only                *)
(* healingAttempts (not retriesUsed, not the breaker), and no step of a    *)
(* withRetry call changes healingAttempts.                                 *)
C13_HealingCap ==
  /\ [](canAttemptHealing(rg) <=> hist.healCalls < 2)
  /\ [][~canAttemptHealing(rg) => ~canAttemptHealing(rg')]_vars
  /\ [][RecordHealingAttempt
          => /\ rg'.stats.healingAttempts = rg.stats.healingAttempts + 1
             /\ rg'.stats.retriesUsed = rg.stats.retriesUsed
             /\ rg'.circuitBreaker = rg.circuitBreaker]_vars
  /\ [][retry' # retry => rg'.stats.healingAttempts = rg.stats.healingAttempts]_vars

(* healing exhausted while a withRetry call has failed attempts *)
C13_Witness ==
  /\ hist.healCalls = 2
  /\ ~canAttemptHealing(rg)
  /\ rg.stats.retriesUsed >= 2
  /\ R.pc = "sleeping"

(* ---- FailureClassifier properties ---- *)
Done == fc.pc = "done"

Ev == fc.evidence

Winner == fc.result.winner

Cand(i) == fc.result.allClassifications[i]

CandIdx == 1..Len(fc.result.allClassifications)

Types == <<"TestFlake", "AppRegression", "EnvironmentIssue", "DataProblem">>

(* the evidence carries nothing but the error message m *)
OnlyMessage(m) ==
  /\ Ev.errorMessage = Text(m)
  /\ ~LengthPositive(Ev.networkFailures)
  /\ ~LengthPositive(Ev.consoleErrors)
  /\ Ev.usedJSHeapSize = Null

(* the evidence carries nothing but one network failure with this status *)
OnlyNetwork(status) ==
  /\ Ev.errorMessage = Absent
  /\ Ev.networkFailures.present
  /\ Len(Ev.networkFailures.items) = 1
  /\ Ev.networkFailures.items[1].status = status
  /\ ~Ev.networkFailures.items[1].failure.present
  /\ ~LengthPositive(Ev.consoleErrors)
  /\ Ev.usedJSHeapSize = Null

(* every optional field absent or an empty list *)
NoSignal ==
  /\ Ev.errorMessage = Absent
  /\ ~LengthPositive(Ev.networkFailures)
  /\ ~LengthPositive(Ev.consoleErrors)
  /\ Ev.usedJSHeapSize = Null

InUnitRange(c) == ~FLess(c, FZero) /\ ~FLess(Dbl(95), c)

(* C14: for every evidence, each of the four candidates and the winner     *)
(* has a confidence in [0, 0.95], however many conditions matched.         *)
C14_ConfidenceCeiling ==
  Done /\ fc.result.status = "resolved"
    => /\ \A i \in CandIdx : InUnitRange(Cand(i).confidence)
       /\ InUnitRange(Winner.confidence)

(* several conditions matched, their weights sum above the ceiling, and    *)
(* the candidate (and the winner) sits exactly on 0.95                     *)
C14_Witness ==
  /\ Done
  /\ Winner.confidence = Dbl(95)
  /\ \E i \in CandIdx : /\ Cand(i).confidence = Dbl(95)
                        /\ Len(Cand(i).reasons) >= 3

MentionsTimeout(reason) ==
  reason.text \in {"Contains timeout error", "Network timeout detected"}

(* C15: evidence whose only signal is the error message                    *)
(* "Timeout 30000ms exceeded waiting for selector" is classified as        *)
(* TestFlake with confidence 0.6 and a reason mentioning "timeout".        *)
C15_TimeoutMessageIsFlake ==
  Done /\ OnlyMessage(Msg_TimeoutExceeded)
    => /\ Winner.type = "TestFlake"
       /\ Winner.confidence = Dbl(60)
       /\ \E i \in 1..Len(Winner.reasons) : MentionsTimeout(Winner.reasons[i])

(* C16: evidence whose only signal is one network failure with status 401  *)
(* is classified as DataProblem with confidence 0.7, and no other          *)
(* heuristic reaches 0.7 on it.                                            *)
C16_Unauthorized ==
  Done /\ OnlyNetwork(401)
    => /\ Winner.type = "DataProblem"
       /\ Winner.confidence = Dbl(70)
       /\ \A i \in CandIdx :
            Cand(i).type # "DataProblem" => FLess(Cand(i).confidence, Dbl(70))

(* the 401 has also scored as a client error for AppRegression *)
C16_Witness ==
  /\ Done
  /\ OnlyNetwork(401)
  /\ Winner.type = "DataProblem"
  /\ Cand(2).confidence = Dbl(60)

(* C17: evidence whose only signal is one network failure with status 500  *)
(* is classified as AppRegression with confidence 0.8, and every other     *)
(* candidate has confidence 0.                                             *)
C17_ServerError ==
  Done /\ OnlyNetwork(500)
    => /\ Winner.type = "AppRegression"
       /\ Winner.confidence = Dbl(80)
       /\ \A i \in CandIdx :
            Cand(i).type # "AppRegression" => Cand(i).confidence = FZero

C17_Witness ==
  /\ Done
  /\ OnlyNetwork(500)
  /\ Winner.reasons = <<[text |-> "server errors (5xx)", n |-> 1]>>

(* C18: the winner is one of the four candidates and no candidate has a    *)
(* higher confidence; allClassifications holds exactly the four            *)
(* candidates, one per type, each with the confidence its heuristic        *)
(* computed, also when candidates tie.                                     *)
C18_WinnerIsMaximal ==
  Done
    => /\ Len(fc.result.allClassifications) = 4
       /\ \A i \in 1..4 : Cand(i).type = Types[i]
       /\ \E i \in 1..4 : Winner = Cand(i)
       /\ \A i \in 1..4 : ~FLess(Winner.confidence, Cand(i).confidence)
       /\ \A i \in 1..4 : Cand(i).confidence = candidates(Ev)[i].confidence

(* two candidates tie on the highest, non-zero confidence *)
C18_Witness ==
  /\ Done
  /\ FLess(FZero, Winner.confidence)
  /\ \E i, j \in CandIdx :
       /\ i # j
       /\ Cand(i).confidence = Winner.confidence
       /\ Cand(j).confidence = Winner.confidence

(* C19: classify() never throws: it returns a result for every evidence,   *)
(* also with every optional field absent or with empty lists; when no      *)
(* condition matched, every candidate and the winner have confidence 0     *)
(* and no reasons.                                                         *)
C19_NeverThrows ==
  Done
    => /\ fc.result.status = "resolved"
       /\ \A i \in CandIdx : Cand(i).reasons = <<>> <=> Cand(i).confidence = FZero
       /\ NoSignal
            => /\ \A i \in CandIdx : /\ Cand(i).confidence = FZero
                                     /\ Cand(i).reasons = <<>>
               /\ Winner.confidence = FZero
               /\ Winner.reasons = <<>>

(* evidence with no optional field at all has been classified *)
C19_Witness ==
  /\ Done
  /\ Ev.errorMessage = Absent
  /\ ~Ev.networkFailures.present
  /\ ~Ev.consoleErrors.present
  /\ Ev.usedJSHeapSize = Null
  /\ fc.result.status = "resolved"
  /\ Winner.reasons = <<>>

(* a console error containing "Cannot read property", or a 404 whose url   *)
(* contains "/api/"                                                        *)
ObviousPattern ==
  \/ /\ Ev.consoleErrors.present
     /\ \E i \in 1..Len(Ev.consoleErrors.items) :
          Includes(Ev.consoleErrors.items[i].text, Lit_CannotReadProperty)
  \/ /\ Ev.networkFailures.present
     /\ \E i \in 1..Len(Ev.networkFailures.items) :
          /\ Ev.networkFailures.items[i].status = 404
          /\ Includes(Ev.networkFailures.items[i].url, Lit_apiPath)

(* C20: the AppRegression candidate is fixable exactly when its confidence *)
(* is above 0.8 and the evidence holds an obvious pattern; the             *)
(* EnvironmentIssue and DataProblem candidates are never fixable.          *)
C20_Fixable ==
  Done
    => /\ Cand(2).fixable <=> FLess(Dbl(80), Cand(2).confidence) /\ ObviousPattern
       /\ ~Cand(3).fixable
       /\ ~Cand(4).fixable

(* a fixable AppRegression next to non-zero EnvironmentIssue/DataProblem *)
C20_Witness ==
  /\ Done
  /\ Cand(2).fixable
  /\ FLess(FZero, Cand(4).confidence)

(* ---- EvidenceCollector properties ---- *)
CollectDone == ec.pc \in {"returned", "rejected"}

Failed(i) == ec.caps[i].threw # None

(* C21: collect() never throws past the top level and always writes the    *)
(* manifest and returns a bundle, whichever page operations fail.          *)
C21_AlwaysManifest ==
  CollectDone /\ ec.thrown \notin {"mkdir", "writeFile"}
    => /\ ec.pc = "returned"
       /\ ec.manifest # <<>>

(* C22: in the manifest that collect() wrote, every capture whose page or  *)
(* file operation threw is recorded as captured: false with the error      *)
(* message, and every other capture is recorded with captured not false.   *)
C22_FailuresIsolated ==
  ec.pc = "returned"
    => \A i \in Captures :
         /\ Failed(i) => /\ ec.manifest[1][i].captured = "false"
                         /\ ec.manifest[1][i].error = ec.caps[i].threw
         /\ ~Failed(i) => ec.manifest[1][i].captured \in {"true", "undefined"}

(* only the screenshot capture threw *)
C22_Witness ==
  /\ ec.pc = "returned"
  /\ \A i \in Captures : Failed(i) <=> CaptureTypes[i] = "screenshot"
  /\ ec.manifest[1][1] = [captured |-> "false", error |-> PageError]

(* C23: the seven captures are all started before any is awaited, the      *)
(* manifest write is started only after all seven have settled, and a      *)
(* capture settling (or failing) leaves the other captures running.        *)
C23_WriteAfterAllSettled ==
  /\ [](\A i, j \in Captures : ec.caps[i].pc # "idle" => ec.caps[j].pc # "idle")
  /\ [](ec.pc \in {"writing", "returned"} \/ ec.thrown = "writeFile"
          => \A i \in Captures : ec.caps[i].pc = "settled")
  /\ [][\A i, j \in Captures :
          i # j /\ ec.caps[i].pc # "idle" /\ ec'.caps[i] # ec.caps[i]
            => ec'.caps[j] = ec.caps[j]]_vars
  /\ [][\A i \in Captures :
          ec.caps[i].pc = "settled" => ec'.caps[i] = ec.caps[i]]_vars

(* the last capture of the array settled first, with a failure; the first  *)
(* one still completed and the manifest was written after it               *)
C23_Witness ==
  /\ ec.pc = "returned"
  /\ ec.firstSettled = Len(CaptureTypes)
  /\ Failed(Len(CaptureTypes))
  /\ ~Failed(1)
  /\ ec.manifest[1][1].captured = "true"

(* ---- PageHealthScorer properties ---- *)
Reports == {ph.reports[k] : k \in 1..Len(ph.reports)}

Age(r, entry) == r.at - entry.timestamp

(* the number of entries of a log observed less than 5000 ms before *)
RecentIn(r, log) ==
  Cardinality({i \in 1..Len(log) : Age(r, log[i]) < RecencyWindowMs})

RECURSIVE WeightedIssues(_)
WeightedIssues(issues) ==
  IF issues = <<>> THEN 0
  ELSE LET issue == issues[Len(issues)]
           weight == IF issue.severity = "high" THEN 10
                     ELSE IF issue.severity = "medium" THEN 5 ELSE 2
       IN issue.count * weight + WeightedIssues(SubSeq(issues, 1, Len(issues) - 1))

Deductions(r) ==
  10 * RecentIn(r, r.consoleErrors) + 15 * RecentIn(r, r.networkFailures)
    + (IF r.fcp # Null /\ r.fcp > SlowPaintMs THEN 20 ELSE 0)
    + WeightedIssues(r.issues)

(* C24: the score is max(0, 100 - 10*E - 15*N - 20*P - A) with E, N the    *)
(* observations less than 5000 ms old, P = 1 exactly when FCP > 3000 ms    *)
(* and A the weighted accessibility issues; it lies in 0..100 and is 100   *)
(* when nothing is deducted.                                               *)
C24_ScoreFormula ==
  \A r \in Reports :
    /\ r.score = IF Deductions(r) >= 100 THEN 0 ELSE 100 - Deductions(r)
    /\ r.score \in 0..100
    /\ ( /\ RecentIn(r, r.consoleErrors) = 0
         /\ RecentIn(r, r.networkFailures) = 0
         /\ r.fcp = Null \/ r.fcp < SlowPaintMs
         /\ r.issues = <<>> ) => r.score = 100

(* one report clamped at 0; another with an observation exactly 5000 ms    *)
(* old that is left out, a recent one, a slow paint and issues             *)
C24_Witness ==
  /\ \E r \in Reports : Deductions(r) > 100 /\ r.score = 0
  /\ \E r \in Reports :
       /\ \E i \in 1..Len(r.consoleErrors) :
            Age(r, r.consoleErrors[i]) = RecencyWindowMs
       /\ RecentIn(r, r.networkFailures) = 1
       /\ r.fcp # Null /\ r.fcp > SlowPaintMs
       /\ r.issues # <<>>
       /\ r.score \in 1..99

AllRecent(r) ==
  /\ RecentIn(r, r.consoleErrors) = Len(r.consoleErrors)
  /\ RecentIn(r, r.networkFailures) = Len(r.networkFailures)

SameInputs(r1, r2) ==
  /\ r1.consoleErrors = r2.consoleErrors
  /\ r1.networkFailures = r2.networkFailures
  /\ r1.fcp = r2.fcp
  /\ r1.issues = r2.issues

(* C25: no step of assessPageHealth changes the observation logs, and two  *)
(* successive calls on the same log, paint time and accessibility issues,  *)
(* with every observation inside the 5 s window at both, return the same   *)
(* score.                                                                  *)
C25_Idempotent ==
  /\ [][ph'.pc # ph.pc
          => /\ ph'.consoleErrors = ph.consoleErrors
             /\ ph'.networkFailures = ph.networkFailures]_vars
  /\ [](Len(ph.reports) = 2
          /\ SameInputs(ph.reports[1], ph.reports[2])
          /\ AllRecent(ph.reports[1]) /\ AllRecent(ph.reports[2])
        => ph.reports[1].score = ph.reports[2].score)

(* the second call ran later than the first on a non-empty log *)
C25_Witness ==
  /\ Len(ph.reports) = 2
  /\ SameInputs(ph.reports[1], ph.reports[2])
  /\ AllRecent(ph.reports[1]) /\ AllRecent(ph.reports[2])
  /\ ph.reports[2].at > ph.reports[1].at
  /\ ph.reports[1].consoleErrors # <<>>
  /\ ph.reports[1].networkFailures # <<>>
  /\ ph.reports[2].score \in 1..99

(* ---- implicit behaviour of the breaker ---- *)
(* C26: a withRetry attempt that resolves, and a failed attempt that is    *)
(* not the last, leave the breaker as it is; with no other caller of the   *)
(* breaker its failure counter is the number of exhausted withRetry calls, *)
(* however many calls succeeded in between, and the exhausted call that    *)
(* brings it to the threshold opens the breaker.                           *)
C26_SuccessKeepsBreaker ==
  /\ [][R.pc = "running" /\ R'.pc \in {"returned", "sleeping"}
          => rg'.circuitBreaker = CB]_vars
  /\ [](CB.failures = hist.exhausted)
  /\ [][hist.exhausted = Threshold - 1 /\ hist'.exhausted = Threshold
          => rg'.circuitBreaker.state = "OPEN"]_vars

(* a call has just succeeded on its second attempt after four exhausted    *)
(* calls, and the four failures are still counted                          *)
C26_Witness ==
  /\ R.pc = "returned"
  /\ R.outcomes = <<"err", "ok">>
  /\ hist.exhausted = Threshold - 1
  /\ CB.failures = Threshold - 1
  /\ CB.state = "CLOSED"

(* C27: the breaker leaves OPEN only by a monitor check that finds the     *)
(* cooldown elapsed, and then to HALF_OPEN; recordCircuitBreakerSuccess    *)
(* called while OPEN sets failures to 0 and leaves the state OPEN, so      *)
(* canProceed() stays false.                                               *)
C27_OnlyCooldownLeavesOpen ==
  /\ [][CB.state = "OPEN" /\ rg'.circuitBreaker.state # "OPEN"
          => /\ MonitorRan
             /\ rg'.circuitBreaker.state = "HALF_OPEN"
             /\ now - CB.lastFailure > Cooldown]_vars
  /\ [][~hist.successSinceOpen /\ hist'.successSinceOpen
          => /\ CB.state = "OPEN"
             /\ rg'.circuitBreaker = [CB EXCEPT !.failures = 0]
             /\ ~canProceed(rg')]_vars
  /\ [](CB.state = "OPEN" => ~canProceed(rg))

(* a success was recorded while OPEN; the cooldown has elapsed, the        *)
(* monitor has not run yet and the breaker still blocks                    *)
C27_Witness ==
  /\ CB.state = "OPEN"
  /\ CB.failures = 0
  /\ hist.successSinceOpen
  /\ now - CB.lastFailure > Cooldown
  /\ monitorDue
  /\ ~canProceed(rg)

RetryStarted == R.pc \in {"idle", "returned", "thrown"} /\ R'.pc = "running"

(* C28: withRetry and withTimeout do not look at the breaker: while        *)
(* canProceed() is false a call still starts the wrapped operation         *)
(* (withTimeout also arms its timer), and a withRetry call that throws has *)
(* made every one of its attempts.                                         *)
C28_CallsIgnoreBreaker ==
  /\ [][~canProceed(rg) /\ RetryStarted
          => R'.attempt = 1 /\ R'.retries = OrDefault(R'.arg, rg.limits.maxRetries)]_vars
  /\ [][~canProceed(rg) /\ Started
          => tmo'.op = "running" /\ tmo'.timer]_vars
  /\ [](R.pc = "thrown"
          => /\ Len(R.outcomes) = R.retries
             /\ \A i \in 1..Len(R.outcomes) : R.outcomes[i] = "err")

(* the breaker has been OPEN all along (the cooldown has not elapsed); a   *)
(* withRetry call made both its attempts and a withTimeout call returned   *)
(* the result of its operation                                             *)
C28_Witness ==
  /\ CB.state = "OPEN"
  /\ ~canProceed(rg)
  /\ now - StartTime <= Cooldown
  /\ R.pc = "thrown"
  /\ R.outcomes = <<"err", "err">>
  /\ tmo.promise.outcome.kind = "result"

(* C29 as claimed: every failure recorded while OPEN keeps the breaker     *)
(* OPEN and stamps lastFailure with the time of the call                   *)
C29_FailureWhileOpenRestamps ==
  [][CB.state = "OPEN" /\ FailureRecorded
       => /\ rg'.circuitBreaker.state = "OPEN"
          /\ rg'.circuitBreaker.lastFailure = now]_vars

(* C29 amended: a failure recorded while OPEN keeps the breaker OPEN; it   *)
(* stamps lastFailure with the time of the call when the incremented       *)
(* counter is at or above the threshold, and leaves lastFailure alone when *)
(* a success recorded while OPEN had reset the counter.  A monitor check   *)
(* moves an OPEN breaker to HALF_OPEN exactly when more than the cooldown  *)
(* has passed since lastFailure.                                           *)
C29_RestampAtThreshold ==
  /\ [][CB.state = "OPEN" /\ FailureRecorded
          => /\ rg'.circuitBreaker.state = "OPEN"
             /\ rg'.circuitBreaker.lastFailure =
                   IF CB.failures + 1 >= Threshold THEN now ELSE CB.lastFailure]_vars
  /\ [][MonitorRan /\ CB.state = "OPEN" /\ Running(rg')
          => (rg'.circuitBreaker.state = "HALF_OPEN"
                <=> now - CB.lastFailure > Cooldown)]_vars

(* the breaker tripped at StartTime and one more failure re-stamped it     *)
(* before the cooldown was over: the monitor check made after the first    *)
(* cooldown has left it OPEN                                               *)
C29_Witness ==
  /\ CB.state = "OPEN"
  /\ hist.freshFailures = Threshold + 1
  /\ CB.lastFailure > StartTime
  /\ CB.lastFailure < StartTime + Cooldown
  /\ now - StartTime > Cooldown
  /\ ~monitorDue

(* C30: the winner is the first, in the order TestFlake, AppRegression,    *)
(* EnvironmentIssue, DataProblem, of the candidates with the highest       *)
(* confidence; when nothing matched it is TestFlake with confidence 0 and  *)
(* fixable = true; a second call on the same evidence returns the same     *)
(* type, confidence and reasons.                                           *)
C30_FirstOfTied ==
  Done
    => /\ \E k \in CandIdx :
            /\ Winner = Cand(k)
            /\ \A i \in CandIdx : ~FLess(Cand(k).confidence, Cand(i).confidence)
            /\ \A i \in 1..(k - 1) : FLess(Cand(i).confidence, Cand(k).confidence)
       /\ (\A i \in CandIdx : Cand(i).reasons = <<>>)
            => /\ Winner.type = Types[1]
               /\ Winner.confidence = FZero
               /\ Winner.fixable
       /\ fc.calls >= 2
            => /\ fc.previous.winner.type = Winner.type
               /\ fc.previous.winner.confidence = Winner.confidence
               /\ fc.previous.winner.reasons = Winner.reasons

(* AppRegression and DataProblem tie on the highest confidence, twice *)
C30_Witness ==
  /\ Done
  /\ fc.calls = 2
  /\ Winner.type = "AppRegression"
  /\ Cand(4).confidence = Winner.confidence
  /\ FLess(Cand(1).confidence, Winner.confidence)
  /\ fc.previous.winner.type = "AppRegression"
====
